---------------------------- MODULE Spec2Model ----------------------------
(***************************************************************************)
(* Model of app.py: the Streamlit product dashboard script.                *)
(*                                                                         *)
(* The state is the script's run: the source file it reads, the cleaned    *)
(* dataframe load_data returns, the st.error messages emitted, and the     *)
(* values the later steps of the script compute.  load_data is a function  *)
(* of the file; it is modelled step by step as operators over a dataframe  *)
(* value, one operator per statement (or group of statements) of the       *)
(* source, and applied as a whole by the Load actions.                     *)
(*                                                                         *)
(* Text is a sequence of one-character strings.  float64 values are        *)
(* records [k, n, d]: k = "num" is the rational n/d in lowest terms,       *)
(* k = "inf" is +inf (n = 1) or -inf (n = -1), k = "nan" is NaN.           *)
(* The in-place fillna calls on a column (df[c].fillna(.., inplace=True))  *)
(* are modelled as updating the dataframe, which is what they do in the    *)
(* pandas versions without copy-on-write that the script was written for.  *)
(***************************************************************************)
EXTENDS Integers, Sequences, FiniteSets, TLC

VARIABLES
    file,               \* the CSV source: status, header, text rows
    pc,                 \* position of the script run
    df,                 \* module-level df: NoDataset until load_data returns
    messages,           \* st.error / st.exception calls so far, in order
    categories,         \* sidebar option list
    selected_category,  \* sidebar selection
    filtered_df,        \* rows of df shown
    kpi,                \* the four KPI values
    charts              \* number of chart / table blocks rendered

vars == <<file, pc, df, messages, categories, selected_category,
          filtered_df, kpi, charts>>

-----------------------------------------------------------------------------
(* Bounds *)

MaxRows == 2

-----------------------------------------------------------------------------
(* Generic helpers *)

Range(s) == {s[i] : i \in 1..Len(s)}

Abs(x) == IF x < 0 THEN -x ELSE x

RECURSIVE Gcd(_, _)
Gcd(a, b) == IF b = 0 THEN a ELSE Gcd(b, a % b)

RECURSIVE Pow10(_)
Pow10(k) == IF k = 0 THEN 1 ELSE 10 * Pow10(k - 1)

\* Sequences over S of length 0..n
SeqsUpTo(S, n) == UNION {[1..k -> S] : k \in 0..n}

-----------------------------------------------------------------------------
(* float64 *)

NaN    == [k |-> "nan", n |-> 0, d |-> 1]
PosInf == [k |-> "inf", n |-> 1, d |-> 1]
NegInf == [k |-> "inf", n |-> -1, d |-> 1]

Num(n, d) ==
    LET s == IF d < 0 THEN -1 ELSE 1
        g == Gcd(Abs(n), Abs(d))
    IN  [k |-> "num", n |-> (s * n) \div g, d |-> (s * d) \div g]

Int2F(i) == Num(i, 1)

IsNaN(x) == x.k = "nan"
IsInf(x) == x.k = "inf"

Sign(x) == IF x.n > 0 THEN 1 ELSE IF x.n < 0 THEN -1 ELSE 0

FNeg(x) == IF IsNaN(x) THEN NaN ELSE [x EXCEPT !.n = -x.n]

FAdd(a, b) ==
    IF IsNaN(a) \/ IsNaN(b) THEN NaN
    ELSE IF IsInf(a) /\ IsInf(b) THEN (IF a.n = b.n THEN a ELSE NaN)
    ELSE IF IsInf(a) THEN a
    ELSE IF IsInf(b) THEN b
    ELSE Num(a.n * b.d + b.n * a.d, a.d * b.d)

FSub(a, b) == FAdd(a, FNeg(b))

FMul(a, b) ==
    IF IsNaN(a) \/ IsNaN(b) THEN NaN
    ELSE IF IsInf(a) \/ IsInf(b)
         THEN (IF Sign(a) * Sign(b) = 0 THEN NaN
               ELSE IF Sign(a) * Sign(b) > 0 THEN PosInf ELSE NegInf)
    ELSE Num(a.n * b.n, a.d * b.d)

\* Division as pandas does it on a numeric column: x/0 is +-inf, 0/0 is NaN.
FDiv(a, b) ==
    IF IsNaN(a) \/ IsNaN(b) THEN NaN
    ELSE IF IsInf(a) /\ IsInf(b) THEN NaN
    ELSE IF IsInf(a) THEN (IF Sign(b) < 0 THEN FNeg(a) ELSE a)
    ELSE IF IsInf(b) THEN Int2F(0)
    ELSE IF b.n = 0
         THEN (IF a.n = 0 THEN NaN ELSE IF a.n > 0 THEN PosInf ELSE NegInf)
    ELSE Num(a.n * b.d, a.d * b.n)

\* a < b; false when either is NaN
FLess(a, b) ==
    IF IsNaN(a) \/ IsNaN(b) THEN FALSE
    ELSE IF IsInf(a) THEN a.n < 0 /\ ~(IsInf(b) /\ b.n < 0)
    ELSE IF IsInf(b) THEN b.n > 0
    ELSE a.n * b.d < b.n * a.d

FLeq(a, b) == ~IsNaN(a) /\ ~IsNaN(b) /\ ~FLess(b, a)

\* Series.fillna(v) on one value
FillNaF(x, v) == IF IsNaN(x) THEN v ELSE x

\* Series.clip(lo, hi) on one value; NaN stays NaN
Clip(x, lo, hi) ==
    IF IsNaN(x) THEN x
    ELSE IF FLess(x, lo) THEN lo
    ELSE IF FLess(hi, x) THEN hi
    ELSE x

RECURSIVE FSum(_)
\* Series.sum(): NaN values are skipped
FSum(s) ==
    IF s = <<>> THEN Int2F(0)
    ELSE IF IsNaN(Head(s)) THEN FSum(Tail(s))
    ELSE FAdd(Head(s), FSum(Tail(s)))

\* Series.mean(): mean of the non-NaN values, NaN when there is none
Mean(s) ==
    LET vals == SelectSeq(s, LAMBDA x : ~IsNaN(x))
    IN  IF vals = <<>> THEN NaN ELSE FDiv(FSum(vals), Int2F(Len(vals)))

-----------------------------------------------------------------------------
(* Text and cells *)

\* A cell of a dataframe column of object dtype: a missing value (NaN),
\* a str, or a Python bool.
NA      == [t |-> "na", s |-> <<>>, b |-> FALSE]
Str(x)  == [t |-> "str", s |-> x, b |-> FALSE]
Bool(v) == [t |-> "bool", s |-> <<>>, b |-> v]

IsNA(c) == c.t = "na"

T_nan      == <<"n", "a", "n">>
T_inf      == <<"i", "n", "f">>
T_True     == <<"T", "r", "u", "e">>
T_False    == <<"F", "a", "l", "s", "e">>
T_Unknown  == <<"U", "n", "k", "n", "o", "w", "n">>
T_All      == <<"A", "l", "l">>
T_Free     == <<"F", "r", "e", "e">>
T_no       == <<"n", "o">>
T_yes      == <<"y", "e", "s">>
T_Save     == <<"S", "a", "v", "e">>
T_Save5    == <<"S", "a", "v", "e", " ", "5">>
T_Toys     == <<"T", "o", "y", "s">>
T_Home     == <<"H", "o", "m", "e">>
T_Blank    == <<" ", " ">>
T_Eco      == <<"E", "c", "o">>
T_0        == <<"0">>
T_4        == <<"4">>
T_5        == <<"5">>
T_10       == <<"1", "0">>
T_2_5      == <<"2", ".", "5">>
T_50_00    == <<"5", "0", ".", "0", "0">>
T_Range    == <<"8", "9", ".", "6", "8", "-", "9", "9", ".", "9", "9">>
T_Range2   == <<"1", "0", "-", "5">>
T_Neg5     == <<"-", "5">>
T_100      == <<"1", "0", "0">>

DigitChars == <<"0", "1", "2", "3", "4", "5", "6", "7", "8", "9">>
Digits == Range(DigitChars)
DigitVal(c) == (CHOOSE i \in 1..10 : DigitChars[i] = c) - 1

RECURSIVE DigitsVal(_)
DigitsVal(s) ==
    IF s = <<>> THEN 0
    ELSE 10 * DigitsVal(SubSeq(s, 1, Len(s) - 1)) + DigitVal(s[Len(s)])

RECURSIVE LStrip(_)
LStrip(s) == IF s # <<>> /\ Head(s) = " " THEN LStrip(Tail(s)) ELSE s

RECURSIVE RStrip(_)
RStrip(s) ==
    IF s # <<>> /\ s[Len(s)] = " " THEN RStrip(SubSeq(s, 1, Len(s) - 1)) ELSE s

\* str.strip()
Strip(s) == RStrip(LStrip(s))

\* Series.astype(str) on one cell: NaN becomes the text "nan"
AsTypeStr(c) ==
    IF c.t = "na" THEN T_nan
    ELSE IF c.t = "bool" THEN (IF c.b THEN T_True ELSE T_False)
    ELSE c.s

\* Mutant of SplitFirst: .str[-1], the text after the last '-'
SplitLast(s) ==
    LET hy == {i \in 1..Len(s) : s[i] = "-"}
    IN  IF hy = {} THEN s
        ELSE SubSeq(s, (CHOOSE i \in hy : \A j \in hy : i >= j) + 1, Len(s))

\* .str.split('-').str[0]: the text before the first '-'
SplitFirst(s) ==
    LET hy == {i \in 1..Len(s) : s[i] = "-"}
    IN  IF hy = {} THEN s
        ELSE SubSeq(s, 1, (CHOOSE i \in hy : \A j \in hy : i <= j) - 1)

\* An unsigned decimal literal: digits with at most one '.', at least one digit
ParseUnsigned(s) ==
    LET dots == {i \in 1..Len(s) : s[i] = "."}
    IN  IF \/ s = <<>>
           \/ \E i \in 1..Len(s) : s[i] \notin Digits \cup {"."}
           \/ Cardinality(dots) > 1
           \/ Len(s) = Cardinality(dots)
        THEN NaN
        ELSE IF dots = {} THEN Int2F(DigitsVal(s))
        ELSE LET p  == CHOOSE i \in dots : TRUE
                 ip == SubSeq(s, 1, p - 1)
                 fp == SubSeq(s, p + 1, Len(s))
             IN  Num(DigitsVal(ip) * Pow10(Len(fp)) + DigitsVal(fp),
                     Pow10(Len(fp)))

\* pd.to_numeric(text, errors='coerce') on one str: surrounding blanks are
\* ignored, an optional sign, then a decimal literal, "inf" or "nan";
\* anything else is coerced to NaN.
ParseText(s) ==
    LET t    == Strip(s)
        neg  == t # <<>> /\ Head(t) = "-"
        body == IF t # <<>> /\ Head(t) \in {"+", "-"} THEN Tail(t) ELSE t
        v    == IF body = T_inf THEN PosInf ELSE ParseUnsigned(body)
    IN  IF neg THEN FNeg(v) ELSE v

\* pd.to_numeric(series, errors='coerce') on one cell
to_numeric(c) ==
    IF c.t = "na" THEN NaN
    ELSE IF c.t = "bool" THEN Int2F(IF c.b THEN 1 ELSE 0)
    ELSE ParseText(c.s)

-----------------------------------------------------------------------------
(* The source file and pd.read_csv *)

PriceColumns   == {"discounted_price", "original_price"}
NumericColumns == {"product_rating", "total_reviews", "purchased_last_month"}
FlagColumns    == {"is_best_seller", "has_coupon", "sustainability_tags",
                   "is_sponsored"}
category_col   == "product_category"
AllColumns     == PriceColumns \cup NumericColumns \cup FlagColumns
                    \cup {category_col}

\* A header name as written in the file: the column name, possibly padded
\* with blanks.
Header(name, padded) == [name |-> name, padded |-> padded]

\* Texts read_csv takes for a missing value (its default na_values; the ones
\* over the model's alphabet)
NaValues == {<<>>, T_nan, <<"N", "a", "N">>, <<"N", "A">>}

BoolWords == {T_True, T_False}

\* read_csv on one column of text cells: a column holding only True/False
\* becomes bool, otherwise each cell is NaN or its text.
ReadColumn(texts) ==
    IF texts # <<>> /\ \A i \in 1..Len(texts) : texts[i] \in BoolWords
    THEN [i \in 1..Len(texts) |-> Bool(texts[i] = T_True)]
    ELSE [i \in 1..Len(texts) |->
            IF texts[i] \in NaValues THEN NA ELSE Str(texts[i])]

\* pd.read_csv(filepath): the frame's column labels are the header names as
\* written (padded ones keep their blanks), the index is 0..n-1 (here 1..n),
\* each row maps a label to its cell.
read_csv(f) ==
    [columns |-> f.header,
     rows    |-> [i \in 1..Len(f.rows) |->
                    [h \in f.header |->
                        ReadColumn([j \in 1..Len(f.rows) |-> f.rows[j][h.name]])[i]]],
     index   |-> [i \in 1..Len(f.rows) |-> i]]

-----------------------------------------------------------------------------
(* Dataframe helpers.  A dataframe is [columns, rows, index]: the set of   *)
(* column labels, the rows (each a function from label to value) and the   *)
(* index label of each row.                                                *)

\* df[c] = vals, one value per row, adding the column when it is new
SetCol(d, c, vals) ==
    [d EXCEPT
        !.columns = @ \cup {c},
        !.rows = [i \in 1..Len(d.rows) |->
                    [x \in DOMAIN d.rows[i] \cup {c} |->
                        IF x = c THEN vals[i] ELSE d.rows[i][x]]]]

\* Row positions of a frame
Rows(d) == 1..Len(d.rows)

\* A scalar assigned to a column: the same value in every row
Broadcast(d, v) == [i \in Rows(d) |-> v]

\* The column as a sequence of values
Col(d, c) == [i \in 1..Len(d.rows) |-> d.rows[i][c]]

RECURSIVE Ascending(_)
\* The members of a finite set of integers, in increasing order
Ascending(S) ==
    IF S = {} THEN <<>>
    ELSE LET m == CHOOSE x \in S : \A y \in S : x <= y
         IN  <<m>> \o Ascending(S \ {m})

\* df[mask]: the rows whose mask value is true, in order, each with its index
\* label
Filter(d, mask) ==
    LET pos == Ascending({i \in 1..Len(d.rows) : mask[i]})
    IN  [d EXCEPT !.rows  = [i \in 1..Len(pos) |-> d.rows[pos[i]]],
                  !.index = [i \in 1..Len(pos) |-> d.index[pos[i]]]]

-----------------------------------------------------------------------------
(* load_data, statement by statement *)

\* line 17: df.columns = df.columns.str.strip()
StripColumns(d) ==
    [d EXCEPT
        !.columns = {h.name : h \in d.columns},
        !.rows = [i \in 1..Len(d.rows) |->
                    [c \in {h.name : h \in d.columns} |->
                        d.rows[i][CHOOSE h \in d.columns : h.name = c]]]]

\* lines 22-23: the text before the first '-' of each price
SplitPrice(d, c) == SetCol(d, c,
      [i \in Rows(d) |->
        LET r == d.rows[i] IN Str(SplitFirst(AsTypeStr(r[c])))])

\* lines 26-27 and 35-37: pd.to_numeric(df[c], errors='coerce')
ToNumeric(d, c) == SetCol(d, c,
      [i \in Rows(d) |->
        LET r == d.rows[i] IN to_numeric(r[c])])

\* Mutant of BackfillOriginal: a missing original price is filled with 0
BackfillZero(d) ==
    SetCol(d, "original_price",
      [i \in Rows(d) |->
        LET r == d.rows[i] IN FillNaF(r["original_price"], Int2F(0))])

\* line 30: df['original_price'].fillna(df['discounted_price'], inplace=True)
BackfillOriginal(d) ==
    SetCol(d, "original_price",
      [i \in Rows(d) |->
        LET r == d.rows[i] IN FillNaF(r["original_price"], r["discounted_price"])])

\* Mutant of DropInvalid: a price of 0 is taken for invalid too
DropNonPositive(d) ==
    Filter(d,
      [i \in Rows(d) |->
        LET r == d.rows[i] IN FLess(Int2F(0), r["discounted_price"])])

\* line 32: df.dropna(subset=['discounted_price'], inplace=True)
DropInvalid(d) == Filter(d,
      [i \in Rows(d) |->
        LET r == d.rows[i] IN ~IsNaN(r["discounted_price"])])

\* lines 41-42: fillna(0) on a count column
FillCount(d, c) == SetCol(d, c,
      [i \in Rows(d) |->
        LET r == d.rows[i] IN FillNaF(r[c], Int2F(0))])

\* line 44: df['product_rating'].fillna(df['product_rating'].mean(), ...)
FillRating(d) ==
    LET m == Mean(Col(d, "product_rating"))
    IN  SetCol(d, "product_rating",
      [i \in Rows(d) |->
        LET r == d.rows[i] IN FillNaF(r["product_rating"], m)])

\* Series.fillna(v) on one cell of an object column
FillNaCell(c, v) == IF IsNA(c) THEN v ELSE c

\* Mutant of CategoryDefault: the else branch (fillna) is left out
CategoryDummyOnly(d) ==
    IF category_col \notin d.columns
    THEN SetCol(d, category_col, Broadcast(d, Str(T_Unknown)))
    ELSE d

\* lines 53-57: the category column, or a dummy one
CategoryDefault(d) ==
    IF category_col \notin d.columns
    THEN SetCol(d, category_col, Broadcast(d, Str(T_Unknown)))
    ELSE SetCol(d, category_col,
      [i \in Rows(d) |->
        LET r == d.rows[i] IN FillNaCell(r[category_col], Str(T_Unknown))])

\* line 60: df['Est. Revenue (Last Month)']
Revenue(d) ==
    SetCol(d, "Est. Revenue (Last Month)",
      [i \in Rows(d) |->
        LET r == d.rows[i] IN FMul(r["discounted_price"], r["purchased_last_month"])])

\* line 63: ((original - discounted) / original) * 100
DiscountRaw(o, p) == FMul(FDiv(FSub(o, p), o), Int2F(100))

\* Mutant of DiscountClean: the clip is left out
DiscountNoClip(x) == FillNaF(x, Int2F(0))

\* line 64: .fillna(0).clip(0, 100)
DiscountClean(x) == Clip(FillNaF(x, Int2F(0)), Int2F(0), Int2F(100))

\* lines 63-64: df['Discount %']
Discount(d) ==
    SetCol(d, "Discount %",
      [i \in Rows(d) |->
        LET r == d.rows[i] IN DiscountClean(DiscountRaw(r["original_price"],
                                                r["discounted_price"]))])

\* Series.astype(bool) on one cell: bool(NaN) and bool of a non-empty str
\* are True
AsTypeBool(c) ==
    IF c.t = "bool" THEN c.b
    ELSE IF c.t = "na" THEN TRUE
    ELSE c.s # <<>>

\* lines 72-77
BestSeller(d, actual_columns) ==
    IF "is_best_seller" \notin actual_columns
    THEN SetCol(d, "is_best_seller", Broadcast(d, FALSE))
    ELSE SetCol(d, "is_best_seller",
      [i \in Rows(d) |->
        LET r == d.rows[i] IN AsTypeBool(r["is_best_seller"])])

\* Mutant of CouponRule: >= 3
CouponRuleAtLeast(c) == Len(AsTypeStr(c)) >= 3

\* line 84: df['has_coupon'].astype(str).str.len() > 3
CouponRule(c) == Len(AsTypeStr(c)) > 3

\* lines 80-84
Coupon(d, actual_columns) ==
    IF "has_coupon" \notin actual_columns
    THEN SetCol(d, "has_coupon_bool", Broadcast(d, FALSE))
    ELSE SetCol(d, "has_coupon_bool",
      [i \in Rows(d) |->
        LET r == d.rows[i] IN CouponRule(r["has_coupon"])])

\* lines 87-92
Sustainable(d, actual_columns) ==
    IF "sustainability_tags" \notin actual_columns
    THEN SetCol(d, "is_sustainable", Broadcast(d, FALSE))
    ELSE SetCol(d, "is_sustainable",
      [i \in Rows(d) |->
        LET r == d.rows[i] IN ~IsNA(r["sustainability_tags"])])

\* lines 95-100
Sponsored(d, actual_columns) ==
    IF "is_sponsored" \notin actual_columns
    THEN SetCol(d, "is_sponsored", Broadcast(d, Str(T_Unknown)))
    ELSE SetCol(d, "is_sponsored",
      [i \in Rows(d) |->
        LET r == d.rows[i] IN FillNaCell(r["is_sponsored"], Bool(FALSE))])

\* lines 69-100: the flag columns, all tested against the column list taken
\* at line 69
Flags(d) ==
    LET actual_columns == d.columns
    IN  Sponsored(Sustainable(Coupon(BestSeller(d, actual_columns),
                                     actual_columns),
                              actual_columns),
                  actual_columns)

\* Mutant of UnguardedColumns: is_best_seller is subscripted untested as well
UnguardedWithBestSeller ==
    {"discounted_price", "original_price", "product_rating", "total_reviews",
     "purchased_last_month", "is_best_seller"}

\* Columns load_data subscripts without testing for them (lines 22, 23, 35,
\* 36, 37): df[c] raises KeyError when c is absent.
UnguardedColumns == PriceColumns \cup NumericColumns

\* The st.error text of each column load_data tests for
ColumnWarning(c) ==
    IF c = category_col
    THEN "Column 'product_category' not found. Please update Line 61. Using 'Unknown' for now."
    ELSE IF c = "is_best_seller" THEN "Error: Column 'is_best_seller' not found."
    ELSE IF c = "has_coupon" THEN "Error: Column 'has_coupon' not found."
    ELSE IF c = "sustainability_tags"
    THEN "Error: Column 'sustainability_tags' not found."
    ELSE "Error: Column 'is_sponsored' not found."

\* The tested columns in the order load_data tests them (lines 53, 72, 80,
\* 87, 95)
GuardedColumns ==
    <<category_col, "is_best_seller", "has_coupon", "sustainability_tags",
      "is_sponsored">>

RECURSIVE WarningsFor(_, _)
\* The st.error calls of load_data on a frame's columns: one per absent
\* tested column, in order
WarningsFor(cols, present) ==
    IF cols = <<>> THEN <<>>
    ELSE (IF Head(cols) \in present THEN <<>> ELSE <<ColumnWarning(Head(cols))>>)
         \o WarningsFor(Tail(cols), present)

\* The frame once its column names are stripped (lines 13-17)
Loaded(f) == StripColumns(read_csv(f))

\* Whether load_data raises on a readable file: read_csv fails on malformed
\* content, or an unguarded column is absent
Raises(f) ==
    \/ f.status = "malformed"
    \/ \E c \in UnguardedColumns : c \notin Loaded(f).columns

\* lines 19-44
Cleaned(d0) ==
    LET d1 == SplitPrice(SplitPrice(d0, "discounted_price"), "original_price")
        d2 == ToNumeric(ToNumeric(d1, "discounted_price"), "original_price")
        d3 == DropInvalid(BackfillOriginal(d2))
        d4 == ToNumeric(ToNumeric(ToNumeric(d3, "product_rating"),
                                  "total_reviews"), "purchased_last_month")
        d5 == FillCount(FillCount(d4, "purchased_last_month"), "total_reviews")
    IN  FillRating(d5)

\* lines 47-104
Engineered(d) == Flags(Discount(Revenue(CategoryDefault(d))))

\* load_data(filepath), when it returns
load_data(f) == Engineered(Cleaned(Loaded(f)))

RECURSIVE Repeat(_, _)
Repeat(s, n) == IF n = 0 THEN <<>> ELSE s \o Repeat(s, n - 1)

\* Mutant of load_warnings: the warnings are emitted once per row
load_warnings_per_row(f) ==
    Repeat(WarningsFor(GuardedColumns, Loaded(f).columns), Len(f.rows))

\* The st.error calls load_data makes, when it returns
load_warnings(f) == WarningsFor(GuardedColumns, Loaded(f).columns)

-----------------------------------------------------------------------------
(* The script after the load block *)

\* Characters of the model's texts in code point order, for sorted()
CodeOrder ==
    <<" ", "-", ".", "0", "1", "2", "3", "4", "5", "6", "7", "8", "9",
      "A", "E", "F", "H", "N", "S", "T", "U",
      "a", "c", "e", "f", "i", "k", "l", "m", "n", "o", "r", "s", "u", "v",
      "w", "y">>

CharRank(c) == CHOOSE i \in 1..Len(CodeOrder) : CodeOrder[i] = c

RECURSIVE TextLess(_, _)
\* str < str
TextLess(a, b) ==
    IF b = <<>> THEN FALSE
    ELSE IF a = <<>> THEN TRUE
    ELSE IF Head(a) = Head(b) THEN TextLess(Tail(a), Tail(b))
    ELSE CharRank(Head(a)) < CharRank(Head(b))

RECURSIVE SetToSeq(_)
SetToSeq(S) ==
    IF S = {} THEN <<>>
    ELSE LET x == CHOOSE y \in S : TRUE IN <<x>> \o SetToSeq(S \ {x})

\* line 128: ['All'] + sorted(df[category_col].unique()), for str categories
CategoryOptions(d) ==
    <<T_All>> \o SortSeq(SetToSeq({c.s : c \in Range(Col(d, category_col))}),
                         TextLess)

\* lines 132-135
FilterByCategory(d, sel) ==
    IF sel = T_All THEN d
    ELSE Filter(d,
      [i \in Rows(d) |->
        LET r == d.rows[i] IN r[category_col] = Str(sel)])

\* lines 140-143
Kpis(d) ==
    [total_revenue      |-> FSum(Col(d, "Est. Revenue (Last Month)")),
     total_purchased    |-> FSum(Col(d, "purchased_last_month")),
     avg_rating         |-> Mean(Col(d, "product_rating")),
     total_best_sellers |-> Cardinality({i \in 1..Len(d.rows) : d.rows[i]["is_best_seller"]})]

\* lines 151-265: the blocks rendered, the second one depending on the
\* selection (lines 171-185)
Rendered(sel) ==
    {"top_10_revenue", "rating_vs_reviews", "sponsored", "best_seller",
     "coupon", "sustainable", "raw_data"}
      \cup (IF sel = T_All THEN {"category_pie"} ELSE {"top_5_purchased"})

\* Mutant of Stopped: the handler returns without st.stop()
NotStopped == "sidebar"

\* st.stop() at lines 112 and 116: the run ends
Stopped == "stopped"

-----------------------------------------------------------------------------
(* Initial states: the files the script is run on *)

\* The name df (or filtered_df) before it is bound.  A frame load_data returns
\* always has columns.
NoDataset == [columns |-> {}, rows |-> <<>>, index |-> <<>>]
NoKpi == [total_revenue |-> NaN, total_purchased |-> NaN, avg_rating |-> NaN,
          total_best_sellers |-> -1]

\* A typical row of the file
BaseRow ==
    [c \in AllColumns |->
        CASE c = "discounted_price"     -> T_5
          [] c = "original_price"       -> T_100
          [] c = "product_rating"       -> T_4
          [] c = "total_reviews"        -> T_10
          [] c = "purchased_last_month" -> T_5
          [] c = "product_category"     -> T_Toys
          [] c = "is_best_seller"       -> T_True
          [] c = "has_coupon"           -> T_Save5
          [] c = "sustainability_tags"  -> T_Eco
          [] c = "is_sponsored"         -> T_yes]

\* A row with a price and every other cell empty
SparseRow ==
    [c \in AllColumns |-> IF c = "discounted_price" THEN T_50_00 ELSE <<>>]

FullHeader == {Header(c, FALSE) : c \in AllColumns}

OkFile(header, rows) == [status |-> "ok", header |-> header, rows |-> rows]

\* A file that is not there, and one read_csv cannot parse
FailFiles ==
    {[status |-> st, header |-> {}, rows |-> <<>>] : st \in {"missing", "malformed"}}

\* <<discounted_price, original_price>> as written in the file: each kind of
\* discounted price beside a plain original price, each kind of original price
\* beside a plain discounted price, and the pairs where both are special
PriceCases ==
    {<<p, T_100>> : p \in {T_0, T_50_00, T_Range, T_Free, <<>>, T_inf, T_Neg5}}
    \cup {<<T_50_00, o>> : o \in {T_0, T_2_5, T_Range2, T_Free, <<>>}}
    \cup {<<T_0, T_0>>, <<T_0, <<>>>>, <<T_inf, <<>>>>, <<T_Free, <<>>>>}

RawRating     == {T_4, T_5, T_Free, <<>>}
RawCategory   == {T_Toys, T_Home, T_Blank, <<>>}
RawCoupon     == {T_no, T_yes, T_Save, T_Save5, <<>>}
RawBestSeller == {T_True, T_False, <<>>}

\* Files that differ in their prices
PriceFiles ==
    {OkFile(FullHeader, rows) :
        rows \in SeqsUpTo({[BaseRow EXCEPT !["discounted_price"] = pc0[1],
                                           !["original_price"] = pc0[2]] :
                              pc0 \in PriceCases},
                          MaxRows)}

\* Files that differ in their ratings and categories
RatingFiles ==
    {OkFile(FullHeader, rows) :
        rows \in SeqsUpTo({[BaseRow EXCEPT !["product_rating"] = r,
                                           !["product_category"] = c] :
                              r \in RawRating, c \in RawCategory},
                          MaxRows)}

\* Files that differ in their coupon and best-seller cells
FlagFiles ==
    {OkFile(FullHeader, rows) :
        rows \in SeqsUpTo({[BaseRow EXCEPT !["has_coupon"] = c,
                                           !["is_best_seller"] = b] :
                              c \in RawCoupon, b \in RawBestSeller},
                          MaxRows)}

\* Files that differ in the columns they have, some with padded header names
SchemaFiles ==
    {OkFile({Header(c, c \in padded) : c \in present}, rows) :
        present \in SUBSET AllColumns,
        padded \in {{}, {"discounted_price", "is_best_seller"}},
        rows \in SeqsUpTo({BaseRow, SparseRow}, MaxRows)}

\* Files without the category column
NoCategoryFiles ==
    {OkFile({Header(c, FALSE) : c \in AllColumns \ {category_col}}, rows) :
        rows \in SeqsUpTo({BaseRow, SparseRow}, MaxRows)}

\* The state of the script before its first statement, run on file f
Start(f) ==
    /\ file = f
    /\ pc = "load"
    /\ df = NoDataset
    /\ messages = <<>>
    /\ categories = <<>>
    /\ selected_category = <<>>
    /\ filtered_df = NoDataset
    /\ kpi = NoKpi
    /\ charts = {}

InitPrices == \E f \in PriceFiles \cup FailFiles : Start(f)

InitCells ==
    \E f \in RatingFiles \cup FlagFiles \cup NoCategoryFiles \cup FailFiles :
        Start(f)

InitSchema == \E f \in SchemaFiles \cup FailFiles : Start(f)

-----------------------------------------------------------------------------
(* The script, top to bottom *)

\* lines 107-108: load_data returns
LoadOk ==
    /\ pc = "load"
    /\ file.status = "ok"
    /\ ~Raises(file)
    /\ df' = load_data(file)
    /\ messages' = messages \o load_warnings(file)
    /\ pc' = "sidebar"
    /\ UNCHANGED <<file, categories, selected_category, filtered_df, kpi, charts>>

\* lines 109-112: the file is not there
LoadFileNotFound ==
    /\ pc = "load"
    /\ file.status = "missing"
    /\ messages' = messages \o
          <<"Error: The file 'amazon_products_sales_data_cleaned.csv' was not found.",
            "Please make sure it's in the **exact same folder** as your 'App.py' file.">>
    /\ pc' = Stopped
    /\ UNCHANGED <<file, df, categories, selected_category, filtered_df, kpi, charts>>

\* lines 113-116: load_data raised anything else
LoadException ==
    /\ pc = "load"
    /\ file.status # "missing"
    /\ Raises(file)
    /\ messages' = messages \o
          <<"An error occurred during data loading: {e}", "st.exception(e)">>
    /\ pc' = Stopped
    /\ UNCHANGED <<file, df, categories, selected_category, filtered_df, kpi, charts>>

\* lines 120-129: title, sidebar, the user's selection
Sidebar ==
    /\ pc = "sidebar"
    /\ categories' = CategoryOptions(df)
    /\ \E sel \in Range(CategoryOptions(df)) : selected_category' = sel
    /\ pc' = "filter"
    /\ UNCHANGED <<file, df, messages, filtered_df, kpi, charts>>

\* lines 132-135
FilterStep ==
    /\ pc = "filter"
    /\ filtered_df' = FilterByCategory(df, selected_category)
    /\ pc' = "kpi"
    /\ UNCHANGED <<file, df, messages, categories, selected_category, kpi, charts>>

\* lines 138-149
KpiStep ==
    /\ pc = "kpi"
    /\ kpi' = Kpis(filtered_df)
    /\ pc' = "charts"
    /\ UNCHANGED <<file, df, messages, categories, selected_category,
                   filtered_df, charts>>

\* lines 151-265
Render ==
    /\ pc = "charts"
    /\ charts' = Rendered(selected_category)
    /\ pc' = "done"
    /\ UNCHANGED <<file, df, messages, categories, selected_category,
                   filtered_df, kpi>>

Next ==
    \/ LoadOk
    \/ LoadFileNotFound
    \/ LoadException
    \/ Sidebar
    \/ FilterStep
    \/ KpiStep
    \/ Render

\* The script run on files that differ in their prices
SpecPrices == InitPrices /\ [][Next]_vars

\* The script run on files that differ in ratings, categories and flags
SpecCells == InitCells /\ [][Next]_vars

\* The script run on files that differ in their columns
SpecSchema == InitSchema /\ [][Next]_vars

TypeOK ==
    /\ pc \in {"load", "sidebar", "filter", "kpi", "charts", "done", "stopped"}
    /\ (df = NoDataset) = (pc \in {"load", "stopped"})

-----------------------------------------------------------------------------
(* Properties *)

\* load_data has returned a dataset
HasDataset == df # NoDataset

\* The column names of the file, without their padding
FileColumns == {h.name : h \in file.header}

\* The text of column c in the file row that output row k comes from
RawOf(k, c) == file.rows[df.index[k]][c]

\* A price text whose part before the first '-' is a number
PriceParses(t) == ~IsNaN(ParseText(SplitFirst(t)))

\* The file rows whose discounted_price parses
ValidRows ==
    {i \in 1..Len(file.rows) : PriceParses(file.rows[i]["discounted_price"])}

\* C1: the output of load_data has no row with a null discounted_price; its
\* rows are exactly the file's rows whose discounted_price (the text before
\* the first '-') parses as a number, in their original order, each with
\* that number as its price.
C1_OutputIsValidRowsInOrder ==
    HasDataset =>
        /\ df.index = Ascending(ValidRows)
        /\ Len(df.rows) = Len(df.index)
        /\ \A k \in 1..Len(df.rows) :
              /\ ~IsNaN(df.rows[k]["discounted_price"])
              /\ df.rows[k]["discounted_price"]
                    = ParseText(SplitFirst(RawOf(k, "discounted_price")))

\* C1 witness: a file of two rows whose first row is dropped and whose second
\* row, priced 0, is kept.
C1_Witness ==
    /\ pc = "done"
    /\ Len(file.rows) = 2
    /\ file.rows[1]["discounted_price"] = T_Free
    /\ file.rows[2]["discounted_price"] = T_0
    /\ df.index = <<2>>

\* C2: every output row's 'Discount %' is within [0, 100], whatever the two
\* prices are, and is 0 where the quotient is undefined (NaN) or the original
\* price is 0.
C2_DiscountWithinBounds ==
    HasDataset =>
        \A k \in 1..Len(df.rows) :
            LET r == df.rows[k]
                o == r["original_price"]
                p == r["discounted_price"]
            IN  /\ FLeq(Int2F(0), r["Discount %"])
                /\ FLeq(r["Discount %"], Int2F(100))
                /\ (IsNaN(FDiv(FSub(o, p), o)) \/ o = Int2F(0))
                      => r["Discount %"] = Int2F(0)

\* C2 witness: an output row with original_price 0 and a positive
\* discounted_price, and one whose original_price is below its
\* discounted_price.
C2_Witness ==
    /\ pc = "done"
    /\ \E k \in 1..Len(df.rows) :
          /\ df.rows[k]["original_price"] = Int2F(0)
          /\ df.rows[k]["discounted_price"] = Int2F(50)
    /\ \E k \in 1..Len(df.rows) :
          /\ df.rows[k]["original_price"] = Num(5, 2)
          /\ df.rows[k]["discounted_price"] = Int2F(50)

\* C3: a price written as a range yields its low end ("89.68-99.99" as
\* discounted_price yields 89.68, "10-5" as original_price yields 10); a
\* discounted_price of "Free" yields a null whose row is absent from the
\* output, and the load does not fail on it.
C3_RangeLowAndFreeDropped ==
    /\ (file.status = "ok" /\ FileColumns = AllColumns) => pc # "stopped"
    /\ HasDataset =>
          /\ \A k \in 1..Len(df.rows) :
                /\ RawOf(k, "discounted_price") = T_Range
                      => df.rows[k]["discounted_price"] = Num(8968, 100)
                /\ RawOf(k, "original_price") = T_Range2
                      => df.rows[k]["original_price"] = Int2F(10)
                /\ RawOf(k, "discounted_price") # T_Free
          /\ \A i \in 1..Len(file.rows) :
                file.rows[i]["discounted_price"] = T_Range
                    => i \in Range(df.index)

\* C3 witness: a loaded file holding a "Free" row and an "89.68-99.99" row.
C3_Witness ==
    /\ pc = "done"
    /\ \E i \in 1..Len(file.rows) : file.rows[i]["discounted_price"] = T_Free
    /\ \E k \in 1..Len(df.rows) : RawOf(k, "discounted_price") = T_Range

\* C4: every retained row whose original_price is missing or unparseable has
\* original_price equal to its parsed discounted_price and 'Discount %' 0,
\* also when the discounted_price is 0.
C4_BackfilledOriginal ==
    HasDataset =>
        \A k \in 1..Len(df.rows) :
            ~PriceParses(RawOf(k, "original_price")) =>
                /\ df.rows[k]["original_price"]
                      = ParseText(SplitFirst(RawOf(k, "discounted_price")))
                /\ ~IsNaN(df.rows[k]["original_price"])
                /\ df.rows[k]["Discount %"] = Int2F(0)

\* C4 witness: a retained row priced 50.00 with no original_price, which gets
\* original_price 50, and one priced 0 with an unparseable original_price.
C4_Witness ==
    /\ pc = "done"
    /\ \E k \in 1..Len(df.rows) :
          /\ RawOf(k, "discounted_price") = T_50_00
          /\ RawOf(k, "original_price") = <<>>
          /\ df.rows[k]["original_price"] = Int2F(50)
    /\ \E k \in 1..Len(df.rows) :
          /\ RawOf(k, "discounted_price") = T_0
          /\ RawOf(k, "original_price") = <<>>
          /\ df.rows[k]["original_price"] = Int2F(0)

\* The columns, other than discounted_price, that the file is expected to have
OtherColumns == AllColumns \ {"discounted_price"}

\* The columns load_data replaces by a default when they are absent, and the
\* output column and value of each
OptionalColumns ==
    {"product_category", "is_best_seller", "has_coupon", "sustainability_tags",
     "is_sponsored"}

\* Every row of the output holds the default of optional column c
DefaultIn(c) ==
    \A k \in 1..Len(df.rows) :
        CASE c = "product_category"    -> df.rows[k]["product_category"] = Str(T_Unknown)
          [] c = "is_best_seller"      -> df.rows[k]["is_best_seller"] = FALSE
          [] c = "has_coupon"          -> df.rows[k]["has_coupon_bool"] = FALSE
          [] c = "sustainability_tags" -> df.rows[k]["is_sustainable"] = FALSE
          [] c = "is_sponsored"        -> df.rows[k]["is_sponsored"] = Str(T_Unknown)

\* The columns every output has
OutputColumns ==
    {"discounted_price", "original_price", "product_rating", "total_reviews",
     "purchased_last_month", "product_category", "Est. Revenue (Last Month)",
     "Discount %", "is_best_seller", "has_coupon_bool", "is_sustainable",
     "is_sponsored"}

\* C5 as stated: discounted_price is the only required column; a readable
\* file that has it and lacks any one of the other expected columns loads
\* without failing.
C5_OnlyDiscountedPriceRequired ==
    (/\ file.status = "ok"
     /\ "discounted_price" \in FileColumns
     /\ \E c \in OtherColumns : FileColumns = AllColumns \ {c})
        => pc # "stopped"

\* C5 amended: discounted_price, original_price, product_rating,
\* total_reviews and purchased_last_month are all required: a readable file
\* lacking any of them fails to load.  A readable file that has those five
\* loads whichever of product_category, is_best_seller, has_coupon,
\* sustainability_tags and is_sponsored are absent, each absent one getting
\* its default column in the dataset returned.
C5_FiveRequiredRestOptional ==
    file.status = "ok" =>
        IF {"discounted_price", "original_price", "product_rating",
            "total_reviews", "purchased_last_month"} \subseteq FileColumns
        THEN /\ pc # "stopped"
             /\ pc # "load" =>
                   /\ HasDataset
                   /\ OutputColumns \subseteq df.columns
                   /\ \A c \in OptionalColumns \ FileColumns : DefaultIn(c)
        ELSE pc \in {"load", "stopped"} /\ ~HasDataset

\* C5 witness: a file with rows and none of the five optional columns has been
\* loaded and rendered; and (second conjunct's case) this is not a failure.
C5_Witness ==
    /\ pc = "done"
    /\ FileColumns = AllColumns \ OptionalColumns
    /\ Len(df.rows) = 2

\* Number of times message m was emitted
Emitted(m) == Cardinality({i \in 1..Len(messages) : messages[i] = m})

\* C6: once load_data has returned, each of product_category, is_best_seller,
\* has_coupon, sustainability_tags and is_sponsored that is absent from the
\* file has emitted exactly one warning, whatever the number of rows, and
\* every output row holds its default ("Unknown", false, false, false,
\* "Unknown"); a present column has emitted none.
C6_OneWarningPerAbsentColumn ==
    HasDataset =>
        \A c \in OptionalColumns :
            IF c \in FileColumns
            THEN Emitted(ColumnWarning(c)) = 0
            ELSE Emitted(ColumnWarning(c)) = 1 /\ DefaultIn(c)

\* C6 witness: a two-row file without is_best_seller (and with has_coupon)
\* has been loaded: one warning for it, two rows with is_best_seller false.
C6_Witness ==
    /\ pc = "done"
    /\ Len(df.rows) = 2
    /\ "is_best_seller" \notin FileColumns
    /\ "has_coupon" \in FileColumns
    /\ Emitted("Error: Column 'is_best_seller' not found.") = 1
    /\ \A k \in 1..2 : df.rows[k]["is_best_seller"] = FALSE

\* C7: when the has_coupon column is present, a row's has_coupon_bool is true
\* exactly when its has_coupon value is a text longer than 3 characters; a
\* null value and a text of at most 3 characters give false.
C7_CouponLongerThanThree ==
    (HasDataset /\ "has_coupon" \in FileColumns) =>
        \A k \in 1..Len(df.rows) :
            LET c == df.rows[k]["has_coupon"]
            IN  df.rows[k]["has_coupon_bool"]
                    = (c.t = "str" /\ Len(c.s) > 3)

\* C7 witness: an output holding a null has_coupon and a has_coupon of
\* exactly 4 characters.
C7_Witness ==
    /\ pc = "done"
    /\ "has_coupon" \in FileColumns
    /\ \E k \in 1..Len(df.rows) :
          IsNA(df.rows[k]["has_coupon"]) /\ ~df.rows[k]["has_coupon_bool"]
    /\ \E k \in 1..Len(df.rows) :
          df.rows[k]["has_coupon"] = Str(T_Save) /\ df.rows[k]["has_coupon_bool"]

\* C8 as stated: after load_data no output row has a NaN product_rating, an
\* explicit default standing in when every rating is null.
C8_NoUndefinedRating ==
    HasDataset =>
        \A k \in 1..Len(df.rows) : ~IsNaN(df.rows[k]["product_rating"])

\* The load failed fatally: the file is missing or unreadable, a column
\* load_data needs is absent, or a fatal error has been reported
FatalFailure ==
    \/ file.status # "ok"
    \/ ~({"discounted_price", "original_price", "product_rating",
          "total_reviews", "purchased_last_month"} \subseteq FileColumns)
    \/ Emitted("An error occurred during data loading: {e}") > 0
    \/ Emitted("Error: The file 'amazon_products_sales_data_cleaned.csv' was not found.") > 0

\* C9: a fatal load failure aborts the run: the run stops at the load block
\* with the error reported, df is never bound, and the category list, the
\* filtered view, the KPIs and the charts are never computed.
C9_FatalFailureStopsRun ==
    FatalFailure =>
        /\ pc \in {"load", "stopped"}
        /\ pc = "stopped" => Len(messages) = 2
        /\ df = NoDataset
        /\ categories = <<>>
        /\ selected_category = <<>>
        /\ filtered_df = NoDataset
        /\ kpi = NoKpi
        /\ charts = {}

\* C9 witness: a run stopped on a readable file that lacks a column load_data
\* needs, and nothing after the load block has run.
C9_Witness ==
    /\ pc = "stopped"
    /\ file.status = "ok"
    /\ "discounted_price" \in FileColumns
    /\ Len(file.rows) = 2
    /\ categories = <<>>

\* C10 as stated: every output row has a category that is neither missing nor
\* blank (empty or whitespace-only text).
C10_NoBlankCategory ==
    HasDataset =>
        \A k \in 1..Len(df.rows) :
            LET c == df.rows[k]["product_category"]
            IN  c.t = "str" /\ Strip(c.s) # <<>>

\* C10 amended: every output row has a non-null product_category: a category
\* cell that is missing (empty) in the file is replaced by "Unknown", the
\* column being absent gives every row "Unknown", and any other text,
\* whitespace-only text included, is kept as it is.
C10_NullCategoryBecomesUnknown ==
    HasDataset =>
        \A k \in 1..Len(df.rows) :
            LET c   == df.rows[k]["product_category"]
                raw == RawOf(k, "product_category")
            IN  /\ c.t = "str"
                /\ c.s # <<>>
                /\ c.s = IF "product_category" \notin FileColumns \/ raw = <<>>
                         THEN T_Unknown
                         ELSE raw

\* C10 witness: an output holding a row whose category was empty in the file
\* and a row whose category is whitespace only.
C10_Witness ==
    /\ pc = "done"
    /\ "product_category" \in FileColumns
    /\ \E k \in 1..Len(df.rows) :
          /\ RawOf(k, "product_category") = <<>>
          /\ df.rows[k]["product_category"] = Str(T_Unknown)
    /\ \E k \in 1..Len(df.rows) :
          /\ RawOf(k, "product_category") = T_Blank
          /\ df.rows[k]["product_category"] = Str(T_Blank)

=============================================================================
